---------------------------- MODULE Spec2Model ----------------------------
(***************************************************************************)
(* Model of tsgen.js (createTSGen) and tsgen-worker.js: a 48-bit           *)
(* millisecond timestamp encoded as 8 characters, produced either directly *)
(* on every get() or read from a value cached by a background refresher    *)
(* (a same-thread loop or a worker thread).                                *)
(*                                                                         *)
(* Conventions.                                                            *)
(*  - A JavaScript value is a record [t, s]: t is its typeof, s the code   *)
(*    units of a string (empty for a non-string).                          *)
(*  - Every handler of the main thread runs to completion (one action);    *)
(*    the clock does not advance inside a handler.                         *)
(*  - The worker thread runs in parallel; it meets the main thread only    *)
(*    through its message queue and its exit.  Node delivers the queued    *)
(*    messages of a worker before its 'exit', emits 'error' immediately    *)
(*    before 'exit', and reports exit code 1 for a terminated worker.      *)
(***************************************************************************)
EXTENDS Integers, Sequences, FiniteSets, Bags, TLC

(***************************************************************************)
(* Bounds of the model.                                                    *)
(***************************************************************************)
\* first value of the millisecond clock (the next one carries into the
\* seventh character)
ClockBase == 63
\* number of millisecond ticks explored
MaxMs == 1
\* number of ticks of the monotonic (hrtime) clock explored
MaxNanoTicks == 1
\* nanoseconds per tick of the monotonic clock
NanoStep == 1000
\* cap of the call counter of the rate window
MaxCalls == 2
\* loop instances (async functions) that can be alive together
MaxLoops == 2
\* worker threads that can exist together (alive or with a pending exit)
MaxWorkers == 2
\* messages a worker can have in flight
MaxQueue == 1
\* arguments of toBase64Url48 explored on each side of a power of 64
MaxOffset == 1

(***************************************************************************)
(* Program constants.                                                      *)
(***************************************************************************)
\* (nowN - windowStartNano) / 1000n
NanosPerUs == 1000
\* process.exit(1) of the worker; also the code Node reports on terminate()
ExitFailure == 1

VARIABLES
    cfg,                 \* options of createTSGen
    WorkerCtor,          \* TRUE iff require('node:worker_threads') succeeded
    nowMs,               \* Date.now()
    nowNano,             \* process.hrtime.bigint()
    cached,
    callsInWindow,
    windowStartNano,
    internalRunning,
    internalController,
    lastHighActivityAt,
    workerRunning,
    worker,              \* the Worker object the generator holds, or null
    loops,               \* the async loop instances of startInternalLoop
    detached,            \* bag of the Worker objects it no longer holds whose
                         \* thread or events are still pending
    ret,                 \* value returned by the last get()
    threw,               \* TRUE iff the last public call threw
    log,                 \* console.error output of the last handler of the main thread
    afterStop,           \* TRUE from stop() to the next start()/promoting get()
    encoded              \* the last two calls of the exported toBase64Url48:
                         \* <<[v |-> argument, out |-> result], ...>>

vars == <<cfg, WorkerCtor, nowMs, nowNano, cached, callsInWindow,
          windowStartNano, internalRunning, internalController,
          lastHighActivityAt, workerRunning, worker, loops, detached,
          ret, threw, log, afterStop, encoded>>

(***************************************************************************)
(* JavaScript values and strings.                                          *)
(***************************************************************************)
Str(s) == [t |-> "string", s |-> s]
ErrorObject == [t |-> "object", s |-> <<>>]
Undefined == [t |-> "undefined", s |-> <<>>]

\* the alphabet in the order of RFC 4648 base64url:
\* 'ABCDEFGHIJKLMNOPQRSTUVWXYZabcdefghijklmnopqrstuvwxyz0123456789-_'
ASCII_BASE64_ALPHA_Rfc4648Order ==
    [i \in 1..26 |-> 64 + i] \o [i \in 1..26 |-> 96 + i]
        \o [i \in 1..10 |-> 47 + i] \o <<45, 95>>

\* '-0123456789ABCDEFGHIJKLMNOPQRSTUVWXYZ_abcdefghijklmnopqrstuvwxyz'
ASCII_BASE64_ALPHA ==
    <<45>> \o [i \in 1..10 |-> 47 + i] \o [i \in 1..26 |-> 64 + i]
           \o <<95>> \o [i \in 1..26 |-> 96 + i]

\* TLC integers are 32 bits wide: a 48-bit value is held as two 24-bit limbs
Limb == 2 ^ 24

\* the 6-bit group of the 48-bit value hi * 2^24 + lo at bit offset shift
Group(hi, lo, shift) ==
    IF shift >= 24
    THEN (hi \div (2 ^ (shift - 24))) % 64
    ELSE (lo \div (2 ^ shift)) % 64

\* the encoder emitting the least significant group first
toBase64Url48Limbs_LeastSignificantFirst(hi, lo) ==
    LET n_hi == hi % Limb
    IN  [i \in 1..8 |-> ASCII_BASE64_ALPHA[Group(n_hi, lo, 6 * (i - 1)) + 1]]

\* toBase64Url48 on a value given as limbs (v = hi * 2^24 + lo, lo < 2^24)
toBase64Url48Limbs(hi, lo) ==
    LET n_hi == hi % Limb      \* n &= (1n << 48n) - 1n
    IN  [i \in 1..8 |-> ASCII_BASE64_ALPHA[Group(n_hi, lo, 42 - 6 * (i - 1)) + 1]]

toBase64Url48(v) == toBase64Url48Limbs(v \div Limb, v % Limb)

\* a <= b for JavaScript strings (comparison by code units)
LexLeq(a, b) ==
    LET n == IF Len(a) < Len(b) THEN Len(a) ELSE Len(b)
        diff == {i \in 1..n : a[i] # b[i]}
    IN  IF diff = {}
        THEN Len(a) <= Len(b)
        ELSE LET k == CHOOSE i \in diff : \A j \in diff : i <= j
             IN  a[k] < b[k]


(***************************************************************************)
(* Configuration: createTSGen merges the caller's options over the         *)
(* defaults and checks nothing.                                            *)
(***************************************************************************)
defaultOptions ==
    [thresholdCalls |-> 5, thresholdWindowUs |-> 5, perfCooldownMs |-> 1000,
     prefer |-> "auto"]

\* Object.assign({}, defaultOptions, opts)
Assign(opts) ==
    [k \in DOMAIN defaultOptions |->
        IF k \in DOMAIN opts THEN opts[k] ELSE defaultOptions[k]]

\* thresholds scaled down to the clocks of the model
Scaled == [thresholdCalls |-> 2, thresholdWindowUs |-> 1, perfCooldownMs |-> 0]

With(r, k, v) == [x \in DOMAIN r \cup {k} |-> IF x = k THEN v ELSE r[x]]

\* the options a caller passes; the last three are the malformed ones
ValidOptions ==
    {Scaled} \cup {With(Scaled, "prefer", p) : p \in {"basic", "internal", "worker"}}
InvalidOptions ==
    { With(Scaled, "thresholdCalls", 0),
      With(Scaled, "thresholdWindowUs", 0),
      With(Scaled, "prefer", "turbo") }

ValidConfig(c) ==
    /\ c.thresholdCalls >= 1
    /\ c.thresholdWindowUs >= 1
    /\ c.prefer \in {"auto", "basic", "internal", "worker"}

(***************************************************************************)
(* The state of one generator as the handlers see it: the closure          *)
(* variables of createTSGen, the loop instances and the worker threads.    *)
(* log is what the handler wrote with console.error, full is set when a    *)
(* handler would exceed MaxLoops or MaxWorkers.                            *)
(***************************************************************************)
Main ==
    [cached |-> cached, callsInWindow |-> callsInWindow,
     windowStartNano |-> windowStartNano, internalRunning |-> internalRunning,
     internalController |-> internalController,
     lastHighActivityAt |-> lastHighActivityAt,
     workerRunning |-> workerRunning, worker |-> worker, loops |-> loops,
     detached |-> detached, threw |-> FALSE, log |-> "", full |-> FALSE]

NoController == [alloc |-> FALSE, stopRequested |-> FALSE]
\* a Worker object with its thread: status, lastMs of tsgen-worker.js, and
\* the messages posted and not yet delivered
null == [status |-> "null", lastMs |-> 0, queue |-> <<>>]
Spawned == [status |-> "spawned", lastMs |-> 0, queue |-> <<>>]

\* markCall that compares the counter on every call, elapsed window or not
markCall_IgnoresWindow(s) ==
    LET calls == s.callsInWindow + 1
        elapsedUs == (nowNano - s.windowStartNano) \div NanosPerUs
    IN  IF elapsedUs >= cfg.thresholdWindowUs
        THEN [s |-> [s EXCEPT !.callsInWindow = 0, !.windowStartNano = nowNano],
              r |-> calls >= cfg.thresholdCalls]
        ELSE [s |-> [s EXCEPT !.callsInWindow = calls],
              r |-> calls >= cfg.thresholdCalls]

\* markCall: [s |-> the state after it, r |-> its result]
markCall(s) ==
    LET calls == s.callsInWindow + 1
        elapsedUs == (nowNano - s.windowStartNano) \div NanosPerUs
    IN  IF elapsedUs >= cfg.thresholdWindowUs
        THEN [s |-> [s EXCEPT !.callsInWindow = 0, !.windowStartNano = nowNano],
              r |-> calls >= cfg.thresholdCalls]
        ELSE [s |-> [s EXCEPT !.callsInWindow = calls], r |-> FALSE]

basicGet == Str(toBase64Url48(nowMs))

\* startInternalLoop up to the first await of the async function: the loop
\* seeds cached, finds the millisecond unchanged and yields
startInternalLoop(s) ==
    IF s.internalRunning THEN s
    ELSE IF BagCardinality(s.loops) >= MaxLoops THEN [s EXCEPT !.full = TRUE]
    ELSE [s EXCEPT !.internalRunning = TRUE,
                   !.lastHighActivityAt = nowMs,
                   !.internalController = [alloc |-> TRUE, stopRequested |-> FALSE],
                   !.cached = Str(toBase64Url48(nowMs)),
                   !.loops = @ (+) SetToBag({nowMs})]

\* stopInternalLoop that flips the flag of the controller
stopInternalLoop_Toggle(s) ==
    [s EXCEPT !.internalController =
                  IF @.alloc THEN [@ EXCEPT !.stopRequested = ~@] ELSE @,
              !.internalRunning = FALSE]

stopInternalLoop(s) ==
    [s EXCEPT !.internalController =
                  IF @.alloc THEN [@ EXCEPT !.stopRequested = TRUE] ELSE @,
              !.internalRunning = FALSE]

\* worker.terminate(): the thread stops; its 'exit' is delivered later
Terminate(th) ==
    IF th.status \in {"spawned", "running"}
    THEN [th EXCEPT !.status = "terminated", !.lastMs = 0]
    ELSE th

\* `worker = null`: a Worker object that is dropped while its thread or its
\* events are pending stays in the system, detached
Release(s) ==
    [s EXCEPT !.worker = null,
              !.detached = IF s.worker # null THEN @ (+) SetToBag({s.worker}) ELSE @]

stopWorker(s) ==
    LET s1 == IF s.worker # null
              THEN [s EXCEPT !.worker = Terminate(@)]
              ELSE s
    IN  [Release(s1) EXCEPT !.workerRunning = FALSE]

\* startWorker whose catch block logs and returns without the fallback
startWorker_CatchWithoutFallback(s, ctorThrows) ==
    IF s.workerRunning THEN [s EXCEPT !.lastHighActivityAt = nowMs]
    ELSE IF ~WorkerCtor THEN startInternalLoop(s)
    ELSE LET s1 == [s EXCEPT !.lastHighActivityAt = nowMs]
         IN  IF ctorThrows
             THEN [s1 EXCEPT !.log = "worker start failed"]
             ELSE IF BagCardinality(s.detached) >= MaxWorkers
             THEN [s1 EXCEPT !.full = TRUE]
             ELSE [Release(s1) EXCEPT !.worker = Spawned, !.workerRunning = TRUE]

\* ctorThrows: whether `new WorkerCtor(...)` throws in this call
startWorker(s, ctorThrows) ==
    IF s.workerRunning THEN [s EXCEPT !.lastHighActivityAt = nowMs]
    ELSE IF ~WorkerCtor THEN startInternalLoop(s)
    ELSE LET s1 == [s EXCEPT !.lastHighActivityAt = nowMs]
         IN  IF ctorThrows
             THEN startInternalLoop([s1 EXCEPT !.log = "worker start failed"])
             ELSE IF BagCardinality(s.detached) >= MaxWorkers
             THEN [s1 EXCEPT !.full = TRUE]
             ELSE [Release(s1) EXCEPT !.worker = Spawned, !.workerRunning = TRUE]

\* requestPerf without the early return for prefer = 'basic'
requestPerf_IgnoresBasic(s, ctorThrows) ==
    LET s1 == [s EXCEPT !.lastHighActivityAt = nowMs]
    IN  IF cfg.prefer = "worker" THEN startWorker(s1, ctorThrows)
        ELSE IF cfg.prefer = "internal" THEN startInternalLoop(s1)
        ELSE IF WorkerCtor THEN startWorker(s1, ctorThrows)
        ELSE startInternalLoop(s1)

\* requestPerf whose 'auto' branch always takes the internal loop
requestPerf_AutoTakesLoop(s, ctorThrows) ==
    LET s1 == [s EXCEPT !.lastHighActivityAt = nowMs]
    IN  IF cfg.prefer = "basic" THEN s1
        ELSE IF cfg.prefer = "worker" THEN startWorker(s1, ctorThrows)
        ELSE startInternalLoop(s1)

requestPerf(s, ctorThrows) ==
    LET s1 == [s EXCEPT !.lastHighActivityAt = nowMs]
    IN  IF cfg.prefer = "basic" THEN s1
        ELSE IF cfg.prefer = "worker" THEN startWorker(s1, ctorThrows)
        ELSE IF cfg.prefer = "internal" THEN startInternalLoop(s1)
        ELSE IF WorkerCtor THEN startWorker(s1, ctorThrows)
        ELSE startInternalLoop(s1)

\* get whose hot path also acts on the result of markCall
get_HotPathRequestsPerf(s, ctorThrows) ==
    IF s.workerRunning \/ s.internalRunning
    THEN LET m == markCall([s EXCEPT !.lastHighActivityAt = nowMs])
         IN  [s |-> IF m.r THEN requestPerf(m.s, ctorThrows) ELSE m.s, v |-> s.cached]
    ELSE LET m == markCall(s)
         IN  [s |-> IF m.r THEN requestPerf(m.s, ctorThrows) ELSE m.s,
              v |-> basicGet]

\* get that returns the cached value as soon as it has promoted
get_PromotingReturnsCached(s, ctorThrows) ==
    IF s.workerRunning \/ s.internalRunning
    THEN [s |-> markCall([s EXCEPT !.lastHighActivityAt = nowMs]).s, v |-> s.cached]
    ELSE LET m == markCall(s)
         IN  [s |-> IF m.r THEN requestPerf(m.s, ctorThrows) ELSE m.s,
              v |-> IF m.r THEN s.cached ELSE basicGet]

\* get: [s |-> the state after it, v |-> the value returned]
get(s, ctorThrows) ==
    IF s.workerRunning \/ s.internalRunning
    THEN [s |-> markCall([s EXCEPT !.lastHighActivityAt = nowMs]).s, v |-> s.cached]
    ELSE LET m == markCall(s)
         IN  [s |-> IF m.r THEN requestPerf(m.s, ctorThrows) ELSE m.s,
              v |-> basicGet]

start(s, mode, ctorThrows) ==
    IF mode = "worker" THEN startWorker(s, ctorThrows)
    ELSE IF mode = "internal" THEN startInternalLoop(s)
    ELSE requestPerf(s, ctorThrows)

stop(s) == stopWorker(stopInternalLoop(s))

\* the message handler without the typeof check
onMessage_AnyType(s, msg) ==
    [s EXCEPT !.cached = msg, !.lastHighActivityAt = nowMs]

\* worker.on('message')
onMessage(s, msg) ==
    [s EXCEPT !.cached = IF msg.t = "string" THEN msg ELSE @,
              !.lastHighActivityAt = nowMs]

\* worker.on('error')
onError(s) ==
    startInternalLoop(stopWorker([s EXCEPT !.log = "tsgen worker error"]))

\* the exit handler without the fallback for a non-zero code
onExit_WithoutFallback(s, code) ==
    [Release(s) EXCEPT !.workerRunning = FALSE]

\* worker.on('exit')
onExit(s, code) ==
    LET s1 == [Release(s) EXCEPT !.workerRunning = FALSE]
    IN  IF code # 0 THEN startInternalLoop(s1) ELSE s1

\* one turn of a loop instance whose localLastMs is v, from the resumption
\* of its await (line 151) to its next await or its end
loopTurn(s, v) ==
    LET s1 == IF nowMs - s.lastHighActivityAt > cfg.perfCooldownMs
              THEN [s EXCEPT !.internalController.stopRequested = TRUE]
              ELSE s
    IN  IF s1.internalController.stopRequested
        THEN [s1 EXCEPT !.internalRunning = FALSE,
                        !.loops = @ (-) SetToBag({v})]
        ELSE IF nowMs # v
        THEN [s1 EXCEPT !.cached = Str(toBase64Url48(nowMs)),
                        !.loops = (@ (-) SetToBag({v})) (+) SetToBag({nowMs})]
        ELSE s1

(***************************************************************************)
(* Construction.                                                           *)
(***************************************************************************)
\* createTSGen(opts) with worker_threads loadable or not
createTSGen(opts, wc) ==
    /\ cfg = Assign(opts)
    /\ WorkerCtor = wc
    /\ nowMs = ClockBase
    /\ nowNano = 0
    /\ cached = Str(toBase64Url48(nowMs))
    /\ callsInWindow = 0
    /\ windowStartNano = nowNano
    /\ internalRunning = FALSE
    /\ internalController = NoController
    /\ lastHighActivityAt = 0
    /\ workerRunning = FALSE
    /\ worker = null
    /\ loops = EmptyBag
    /\ detached = EmptyBag
    /\ ret = Undefined
    /\ threw = FALSE
    /\ log = ""
    /\ afterStop = FALSE
    /\ encoded = <<>>

Init == \E opts \in ValidOptions, wc \in BOOLEAN : createTSGen(opts, wc)

(***************************************************************************)
(* Actions.                                                                *)
(***************************************************************************)
\* the handler's result s becomes the state, unless it exceeds a bound
Commit(s) ==
    /\ ~s.full
    /\ s.callsInWindow <= MaxCalls
    /\ cached' = s.cached
    /\ callsInWindow' = s.callsInWindow
    /\ windowStartNano' = s.windowStartNano
    /\ internalRunning' = s.internalRunning
    /\ internalController' = s.internalController
    /\ lastHighActivityAt' = s.lastHighActivityAt
    /\ workerRunning' = s.workerRunning
    /\ worker' = s.worker
    /\ loops' = s.loops
    /\ detached' = s.detached

Env == <<cfg, WorkerCtor, nowMs, nowNano, encoded>>
MainVars == <<cached, callsInWindow, windowStartNano, internalRunning,
              internalController, lastHighActivityAt, workerRunning, loops>>
Threads == <<worker, detached>>
Ghost == <<ret, threw, log, afterStop>>

TickMs ==
    /\ nowMs < ClockBase + MaxMs
    /\ nowMs' = nowMs + 1
    /\ UNCHANGED <<cfg, WorkerCtor, nowNano, encoded, MainVars, Threads, Ghost>>

TickNano ==
    /\ nowNano < MaxNanoTicks * NanoStep
    /\ nowNano' = nowNano + NanoStep
    /\ UNCHANGED <<cfg, WorkerCtor, nowMs, encoded, MainVars, Threads, Ghost>>

\* whether a get() in the current state calls requestPerf
GetRequestsPerf == ~workerRunning /\ ~internalRunning /\ markCall(Main).r

Get ==
    \E ctorThrows \in BOOLEAN :
        LET g == get(Main, ctorThrows)
        IN  /\ Commit(g.s)
            /\ ret' = g.v
            /\ threw' = g.s.threw
            /\ log' = g.s.log
            /\ afterStop' = (afterStop /\ ~GetRequestsPerf)
            /\ UNCHANGED Env

\* start(mode); start() and start('auto') take the same path
StartMode(mode) ==
    \E ctorThrows \in BOOLEAN :
        LET s == start(Main, mode, ctorThrows)
        IN  /\ Commit(s)
            /\ threw' = s.threw
            /\ log' = s.log
            /\ afterStop' = FALSE
            /\ UNCHANGED <<Env, ret>>

Start == \E mode \in {"worker", "internal", "auto"} : StartMode(mode)

Stop ==
    LET s == stop(Main)
    IN  /\ Commit(s)
        /\ threw' = s.threw
        /\ log' = s.log
        /\ afterStop' = TRUE
        /\ UNCHANGED <<Env, ret>>

\* a pending turn of a loop instance (a turn that changes nothing is a
\* stuttering step)
LoopTurn ==
    \E v \in BagToSet(loops) :
        LET s == loopTurn(Main, v)
        IN  /\ s # Main
            /\ Commit(s)
            /\ log' = s.log
            /\ UNCHANGED <<Env, ret, threw, afterStop>>

\* The Worker objects with a thread or an event pending: the one the
\* generator holds (held) and the detached ones.
WorkerObjects ==
    {[held |-> TRUE, th |-> x] : x \in IF worker # null THEN {worker} ELSE {}}
    \cup {[held |-> FALSE, th |-> x] : x \in BagToSet(detached)}

\* the state s with Worker object o in state th2
Replace(s, o, th2) ==
    IF o.held
    THEN [s EXCEPT !.worker = th2]
    ELSE [s EXCEPT !.detached = (@ (-) SetToBag({o.th})) (+) SetToBag({th2})]

\* the state s without Worker object o: its thread has ended and its last
\* event is being delivered
Remove(s, o) ==
    IF o.held
    THEN [s EXCEPT !.worker = null]
    ELSE [s EXCEPT !.detached = @ (-) SetToBag({o.th})]

\* delivery of the oldest message of a Worker object
OnMessage ==
    \E o \in WorkerObjects :
        /\ o.th.queue # <<>>
        /\ LET s == onMessage(Replace(Main, o, [o.th EXCEPT !.queue = Tail(@)]),
                              Head(o.th.queue))
           IN  /\ Commit(s)
               /\ log' = s.log
        /\ UNCHANGED <<Env, ret, threw, afterStop>>

\* an uncaught exception of a worker thread: 'error', then 'exit' with code 1
OnError ==
    \E o \in WorkerObjects :
        /\ o.th.status = "errored"
        /\ o.th.queue = <<>>
        /\ LET s == onExit(onError(Remove(Main, o)), ExitFailure)
           IN  /\ Commit(s)
               /\ log' = s.log
        /\ UNCHANGED <<Env, ret, threw, afterStop>>

\* 'exit' of a thread that was terminated or called process.exit(1)
OnExit ==
    \E o \in WorkerObjects :
        /\ o.th.status \in {"terminated", "exiting"}
        /\ o.th.queue = <<>>
        /\ LET s == onExit(Remove(Main, o), ExitFailure)
           IN  /\ Commit(s)
               /\ log' = s.log
        /\ UNCHANGED <<Env, ret, threw, afterStop>>

(***************************************************************************)
(* The worker thread (tsgen-worker.js).                                    *)
(***************************************************************************)
postMessage(th, msg) == [th EXCEPT !.queue = Append(@, msg)]

\* a step of the thread of Worker object o that leaves it as th2
ThreadStep(o, th2) ==
    /\ worker' = Replace(Main, o, th2).worker
    /\ detached' = Replace(Main, o, th2).detached
    /\ UNCHANGED <<Env, MainVars, Ghost>>

\* initial send
WorkerInit ==
    \E o \in WorkerObjects :
        /\ o.th.status = "spawned"
        /\ Len(o.th.queue) < MaxQueue
        /\ ThreadStep(o, postMessage([o.th EXCEPT !.status = "running", !.lastMs = nowMs],
                                     Str(toBase64Url48(nowMs))))

\* an iteration of loop() that finds a new millisecond
WorkerLoop ==
    \E o \in WorkerObjects :
        /\ o.th.status = "running"
        /\ nowMs # o.th.lastMs
        /\ Len(o.th.queue) < MaxQueue
        /\ ThreadStep(o, postMessage([o.th EXCEPT !.lastMs = nowMs],
                                     Str(toBase64Url48(nowMs))))

\* loop().catch: post {__error}, process.exit(1)
WorkerCatch ==
    \E o \in WorkerObjects :
        /\ o.th.status = "running"
        /\ Len(o.th.queue) < MaxQueue
        /\ ThreadStep(o, postMessage([o.th EXCEPT !.status = "exiting", !.lastMs = 0],
                                     ErrorObject))

\* an exception nothing in the worker catches
WorkerUncaught ==
    \E o \in WorkerObjects :
        /\ o.th.status \in {"spawned", "running"}
        /\ ThreadStep(o, [o.th EXCEPT !.status = "errored", !.lastMs = 0])

Next ==
    \/ TickMs \/ TickNano
    \/ Get \/ Start \/ Stop
    \/ LoopTurn \/ OnMessage \/ OnError \/ OnExit
    \/ WorkerInit \/ WorkerLoop \/ WorkerCatch \/ WorkerUncaught

Spec == Init /\ [][Next]_vars

(***************************************************************************)
(* A generator created with prefer = 'basic' and driven by get(), start()  *)
(* and stop() only.                                                        *)
(***************************************************************************)
InitBasic == \E wc \in BOOLEAN : createTSGen(With(Scaled, "prefer", "basic"), wc)

NextBasic ==
    \/ TickMs \/ TickNano
    \/ Get \/ StartMode("auto") \/ Stop

SpecBasic == InitBasic /\ [][NextBasic]_vars

(***************************************************************************)
(* The same generator with a caller that can also stay away for two rate   *)
(* windows.                                                                *)
(***************************************************************************)
Pause ==
    /\ nowNano < MaxNanoTicks * NanoStep
    /\ nowNano' = nowNano + 2 * cfg.thresholdWindowUs * NanosPerUs
    /\ UNCHANGED <<cfg, WorkerCtor, nowMs, encoded, MainVars, Threads, Ghost>>

NextPausing == NextBasic \/ Pause

SpecPausing == InitBasic /\ [][NextPausing]_vars

(***************************************************************************)
(* Generators created with malformed options.                              *)
(***************************************************************************)
InitUnchecked == \E opts \in InvalidOptions, wc \in BOOLEAN : createTSGen(opts, wc)

SpecUnchecked == InitUnchecked /\ [][Next]_vars

(***************************************************************************)
(* Fair scheduling: the clock advances, pending loop turns run, worker     *)
(* threads that have not failed run and their messages are delivered.      *)
(* The callers are not obliged to call.  The clock of the model stops at   *)
(* ClockBase + MaxMs, so everything that refreshes lastHighActivityAt      *)
(* happens early enough for the cooldown to expire afterwards.  Worker     *)
(* failures (WorkerCatch, WorkerUncaught, OnError) are left out: they are  *)
(* not needed to keep a refresher alive.                                   *)
(***************************************************************************)
Horizon == ClockBase + MaxMs - Scaled.perfCooldownMs - 1
Early == nowMs <= Horizon

NextFair ==
    \/ TickMs \/ TickNano
    \/ (Early /\ Get) \/ (Early /\ Start) \/ Stop
    \/ LoopTurn \/ (Early /\ OnMessage) \/ (Early /\ OnExit)
    \/ WorkerInit \/ WorkerLoop

FairSpec ==
    /\ Init
    /\ [][NextFair]_vars
    /\ WF_vars(TickMs)
    /\ WF_vars(LoopTurn)
    /\ WF_vars(Early /\ OnMessage)
    /\ WF_vars(WorkerInit)
    /\ WF_vars(WorkerLoop)

(***************************************************************************)
(* The exported toBase64Url48, called directly (as test_tsgen.js does)     *)
(* in a process that has loaded tsgen.js: the default instance exists and  *)
(* nobody uses it.  The arguments are the non-negative integers within     *)
(* MaxOffset of a power of 64, up to 64^8 = 2^48 and beyond, as limbs.     *)
(***************************************************************************)
\* the value hi * 2^24 + lo with lo brought into 0 .. 2^24 - 1
Norm(hi, lo) == [hi |-> hi + (lo \div Limb), lo |-> lo % Limb]

\* 64^k + d
NearPower(k, d) == IF k < 4 THEN Norm(0, 64 ^ k + d) ELSE Norm(64 ^ (k - 4), d)

EncoderInputs ==
    {x \in {NearPower(k, d) : k \in 0..8, d \in (0 - MaxOffset)..MaxOffset} :
        x.hi >= 0}

\* createTSGen() of `const defaultInstance`
NoOptions == [k \in {} |-> 0]
InitEncoder == \E wc \in BOOLEAN : createTSGen(NoOptions, wc)

Encode ==
    \E x \in EncoderInputs :
        /\ encoded' = (IF encoded = <<>> THEN <<>> ELSE <<encoded[Len(encoded)]>>)
                         \o <<[v |-> x, out |-> toBase64Url48Limbs(x.hi, x.lo)]>>
        /\ UNCHANGED <<cfg, WorkerCtor, nowMs, nowNano, MainVars, Threads, Ghost>>

NextEncoder == Encode

SpecEncoder == InitEncoder /\ [][NextEncoder]_vars

(***************************************************************************)
(* Properties.                                                             *)
(***************************************************************************)
Promoted == workerRunning \/ internalRunning
DirectCompute == ~workerRunning /\ ~internalRunning

\* C1: the strings returned by successive get() calls never decrease in
\* lexicographic order, whatever happens between the calls.
C1_GetMonotonic == [][Get => LexLeq(ret.s, ret'.s)]_vars

\* C2: from stop() until the next start() or the next get() that requests
\* promotion, the cached value is not written, no refresher is started and
\* both running flags stay false.
C2_StopIsFinal ==
    [][(afterStop /\ afterStop') =>
          /\ cached' = cached
          /\ DirectCompute'
          /\ BagCardinality(loops') <= BagCardinality(loops)]_vars

\* C3: under fair scheduling a promoted controller that is no longer
\* called returns to DirectCompute.
C3_IdleDemotion == Promoted ~> DirectCompute

\* C5: at most one refresher that can write the cached value is alive.
LoopWriters == IF internalController.stopRequested THEN 0 ELSE BagCardinality(loops)
ThreadWriters ==
    (IF worker.status \in {"spawned", "running"} THEN 1 ELSE 0)
    + BagCardinality([th \in {x \in BagToSet(detached) : x.status \in {"spawned", "running"}}
                         |-> detached[th]])
C5_SingleWriter == LoopWriters + ThreadWriters <= 1

\* C8: at the moment the controller becomes Promoted, the cached value is
\* the encoding of the current millisecond.
C8_SeededAtPromotion ==
    [][(DirectCompute /\ Promoted') => cached' = Str(toBase64Url48(nowMs))]_vars

\* C10: a generator is not created from malformed options: construction
\* fails instead.
C10_ConfigValidated == ~ValidConfig(cfg) => threw

\* C4: with prefer = 'basic', get(), start() and stop() never promote, no
\* refresher exists, and every get() returns the encoding of the current
\* millisecond.
C4_BasicNeverPromotes ==
    /\ [](/\ DirectCompute
          /\ loops = EmptyBag
          /\ worker = null
          /\ detached = EmptyBag)
    /\ [][Get => ret' = Str(toBase64Url48(nowMs))]_vars

\* the monitor has signalled, requestPerf has run, and nothing was promoted
C4_Witness ==
    /\ cfg.prefer = "basic"
    /\ windowStartNano > 0
    /\ callsInWindow = 0
    /\ lastHighActivityAt = nowMs
    /\ ret = Str(toBase64Url48(nowMs))
    /\ DirectCompute

\* a call that reaches the worker strategy when no worker can be started
WorkerPreferred == cfg.prefer \in {"worker", "auto"}
FailedWorkerStart ==
    \/ (Get \/ Start) /\ log' = "worker start failed"
    \/ /\ ~WorkerCtor
       /\ \/ StartMode("worker")
          \/ WorkerPreferred /\ StartMode("auto")
          \/ WorkerPreferred /\ GetRequestsPerf /\ Get

\* C6: a call that cannot start the worker leaves the cooperative loop
\* running, no worker, and throws nothing.
C6_StartupFallback ==
    [][FailedWorkerStart =>
          /\ internalRunning'
          /\ ~workerRunning'
          /\ worker' = null
          /\ ~threw']_vars

C6_Witness ==
    /\ log = "worker start failed"
    /\ internalRunning
    /\ ~workerRunning
    /\ worker = null
    /\ ~threw

\* C7: an 'error' or a non-zero 'exit' of a worker, delivered while only
\* the worker strategy is running, ends with the cooperative loop
\* running, workerRunning false, and cached set to the encoding of the
\* current millisecond.
C7_RuntimeFallback ==
    [][((OnError \/ OnExit) /\ workerRunning /\ ~internalRunning) =>
          /\ internalRunning'
          /\ ~workerRunning'
          /\ cached' = Str(toBase64Url48(nowMs))]_vars

\* the fallback has run after an 'error' at a millisecond the worker never
\* reported: the cached value is not a value the worker sent
C7_Witness ==
    /\ log = "tsgen worker error"
    /\ internalRunning
    /\ ~workerRunning
    /\ nowMs > ClockBase
    /\ cached = Str(toBase64Url48(nowMs))
    /\ loops = SetToBag({nowMs})

ValidEncoded(v) ==
    /\ v.t = "string"
    /\ Len(v.s) = 8
    /\ \A i \in 1..8 : \E k \in 1..64 : ASCII_BASE64_ALPHA[k] = v.s[i]

\* C9: in every reachable state get() throws nothing and returns a string
\* of 8 characters of the alphabet; so did the last get().
C9_GetValid ==
    /\ ~threw
    /\ ret # Undefined => ValidEncoded(ret)
    /\ \A ctorThrows \in BOOLEAN :
          /\ ValidEncoded(get(Main, ctorThrows).v)
          /\ ~get(Main, ctorThrows).s.threw

\* a get() has returned the cached value of a generator whose worker has
\* sent {__error} (delivered) and is about to exit
C9_Witness ==
    /\ workerRunning
    /\ worker.status = "exiting"
    /\ worker.queue = <<>>
    /\ ret = cached
    /\ callsInWindow > 0

(***************************************************************************)
(* The encoder.                                                            *)
(***************************************************************************)
\* a < b for values given as limbs
Less(a, b) == a.hi < b.hi \/ (a.hi = b.hi /\ a.lo < b.lo)
\* 0 <= a < 2^48
In48(a) == a.hi >= 0 /\ a.hi < Limb
\* a < b for JavaScript strings
LexLess(a, b) == LexLeq(a, b) /\ a # b

\* C11: the alphabet is strictly ascending in code units, and of two
\* encoded values below 2^48 the smaller has the smaller string, so
\* different values have different strings.
C11_OrderPreserving ==
    /\ \A i \in 1..63 : ASCII_BASE64_ALPHA[i] < ASCII_BASE64_ALPHA[i + 1]
    /\ \A i, j \in 1..Len(encoded) :
          LET a == encoded[i]
              b == encoded[j]
          IN  /\ (In48(a.v) /\ In48(b.v) /\ Less(a.v, b.v)) => LexLess(a.out, b.out)
              /\ (In48(a.v) /\ In48(b.v) /\ a.v # b.v) => a.out # b.out

\* 2^24 - 1 ('----zzzz') then 2^24 ('---0----'): the carry crosses the
\* middle of the string
C11_Witness ==
    /\ Len(encoded) = 2
    /\ encoded[1].v = [hi |-> 0, lo |-> Limb - 1]
    /\ encoded[2].v = [hi |-> 1, lo |-> 0]
    /\ encoded[1].out = <<45, 45, 45, 45, 122, 122, 122, 122>>
    /\ encoded[2].out = <<45, 45, 45, 48, 45, 45, 45, 45>>

\* the 6-bit number a symbol of the alphabet stands for
Ordinal(c) == CHOOSE k \in 0..63 : ASCII_BASE64_ALPHA[k + 1] = c
\* the number the four symbols s[from] .. s[from + 3] spell in base 64
Spelled(s, from) ==
    ((Ordinal(s[from]) * 64 + Ordinal(s[from + 1])) * 64
        + Ordinal(s[from + 2])) * 64 + Ordinal(s[from + 3])

\* C12: the result has 8 symbols of the alphabet that spell the argument
\* modulo 2^48 in base 64, most significant group first; 0 gives '-'
\* eight times, and arguments equal modulo 2^48 give the same string.
C12_EncoderForm ==
    \A i, j \in 1..Len(encoded) :
        LET a == encoded[i]
            b == encoded[j]
        IN  /\ Len(a.out) = 8
            /\ \A n \in 1..8 : \E k \in 1..64 : ASCII_BASE64_ALPHA[k] = a.out[n]
            /\ Spelled(a.out, 1) = a.v.hi % Limb
            /\ Spelled(a.out, 5) = a.v.lo
            /\ a.v = [hi |-> 0, lo |-> 0] => a.out = [n \in 1..8 |-> 45]
            /\ (a.v.hi % Limb = b.v.hi % Limb /\ a.v.lo = b.v.lo) => a.out = b.out

\* 2^48 + 1 and 1 have both been encoded as '-------0'
C12_Witness ==
    /\ Len(encoded) = 2
    /\ encoded[1].v = [hi |-> Limb, lo |-> 1]
    /\ encoded[2].v = [hi |-> 0, lo |-> 1]
    /\ encoded[1].out = <<45, 45, 45, 45, 45, 45, 45, 48>>
    /\ encoded[2].out = encoded[1].out

(***************************************************************************)
(* stop().                                                                 *)
(***************************************************************************)
\* a stop() in this state would change nothing
Stopped == stop(Main) = Main

\* C13: in every reachable state a second stop() changes nothing of what
\* the first one left and neither throws; the state a stop() leaves is one
\* where stop() changes nothing; and stop() changes nothing when neither
\* strategy is running.
C13_StopIdempotent ==
    /\ [](/\ stop(stop(Main)) = stop(Main)
          /\ ~stop(Main).threw
          /\ ~stop(stop(Main)).threw)
    /\ [][Stop => Stopped']_vars
    /\ [](DirectCompute => Stopped)

\* stop() has been called on a generator with a loop and a worker: the
\* loop has its turn pending with the flag set, the thread is terminated
\* with its 'exit' pending
C13_Witness ==
    /\ afterStop
    /\ DirectCompute
    /\ worker = null
    /\ internalController = [alloc |-> TRUE, stopRequested |-> TRUE]
    /\ loops # EmptyBag
    /\ \E th \in BagToSet(detached) : th.status = "terminated"

(***************************************************************************)
(* The call-rate monitor.                                                  *)
(***************************************************************************)
\* the window that started at windowStartNano has elapsed
WindowElapsed == nowNano - windowStartNano >= cfg.thresholdWindowUs * NanosPerUs

\* C14: every get() counts one call; when the window has elapsed the
\* monitor signals iff the counter, this call included, reaches
\* thresholdCalls, and restarts the window with counter 0; otherwise it
\* signals nothing and keeps the window start and the incremented
\* counter, so a get() inside the window never requests promotion.
C14_WindowAlgorithm ==
    /\ [](markCall(Main).r <=>
             (WindowElapsed /\ callsInWindow + 1 >= cfg.thresholdCalls))
    /\ [][Get =>
            IF WindowElapsed
            THEN callsInWindow' = 0 /\ windowStartNano' = nowNano
            ELSE callsInWindow' = callsInWindow + 1 /\ UNCHANGED windowStartNano]_vars
    /\ [][(Get /\ DirectCompute /\ ~WindowElapsed) =>
            (DirectCompute' /\ UNCHANGED <<lastHighActivityAt, worker, loops>>)]_vars

\* a burst of MaxCalls >= thresholdCalls calls inside the first window of a
\* generator that may promote: nothing was requested
C14_Witness ==
    /\ cfg.prefer # "basic"
    /\ callsInWindow = MaxCalls
    /\ callsInWindow >= cfg.thresholdCalls
    /\ windowStartNano = 0
    /\ ~WindowElapsed
    /\ ret = Str(toBase64Url48(nowMs))
    /\ DirectCompute
    /\ lastHighActivityAt = 0
    /\ worker = null /\ loops = EmptyBag /\ detached = EmptyBag

\* Every call counted in callsInWindow found the window not yet elapsed, so
\* it was made before windowStartNano + thresholdWindowUs.  When two
\* windows have passed since windowStartNano, a call made now is at least
\* one window away from each of them.
IsolatedCall ==
    /\ callsInWindow >= 1
    /\ nowNano - windowStartNano >= 2 * cfg.thresholdWindowUs * NanosPerUs

\* C15: with thresholdCalls >= 2, a get() that is at least one window
\* away from every call counted so far does not signal: markCall returns
\* false and requestPerf is not called.
C15_RateBased ==
    [][(Get /\ IsolatedCall /\ cfg.thresholdCalls >= 2) =>
          (~markCall(Main).r /\ UNCHANGED lastHighActivityAt)]_vars

(***************************************************************************)
(* get().                                                                  *)
(***************************************************************************)
\* C16: a get() while Promoted returns the cached value, sets
\* lastHighActivityAt to now, counts the call in the monitor, and changes
\* neither the running flags, the worker, the loops nor the cached value,
\* whether the monitor signals or not.
C16_PromotedGetFrame ==
    [][(Get /\ Promoted) =>
          /\ ret' = cached
          /\ lastHighActivityAt' = nowMs
          /\ callsInWindow' = (IF WindowElapsed THEN 0 ELSE callsInWindow + 1)
          /\ windowStartNano' = (IF WindowElapsed THEN nowNano ELSE windowStartNano)
          /\ UNCHANGED <<workerRunning, internalRunning, internalController,
                         worker, detached, loops, cached>>]_vars

\* a get() of a promoted generator has returned a cached value that is not
\* the encoding of the current millisecond, in a call that found the
\* window elapsed
C16_Witness ==
    /\ Promoted
    /\ ret = cached
    /\ ret # Str(toBase64Url48(nowMs))
    /\ lastHighActivityAt = nowMs
    /\ callsInWindow = 0
    /\ windowStartNano = nowNano
    /\ nowNano > 0

\* C17: a get() in DirectCompute returns the encoding of the current
\* millisecond, also when it is the call that promotes.
C17_DirectGetComputes ==
    [][(Get /\ DirectCompute) => ret' = Str(toBase64Url48(nowMs))]_vars

\* a generator just promoted to a worker that has not reported yet: the
\* last get() returned the current millisecond, which the cached value is
\* not
C17_Witness ==
    /\ workerRunning
    /\ worker = Spawned
    /\ ret = Str(toBase64Url48(nowMs))
    /\ cached # ret
    /\ lastHighActivityAt = nowMs
    /\ callsInWindow = 0
    /\ windowStartNano = nowNano
    /\ nowNano > 0

\* a get() that takes the controller from DirectCompute to Promoted
GetPromotes == Get /\ DirectCompute /\ Promoted'

\* the get() step has started a worker and nothing else
WorkerStarted ==
    /\ workerRunning' /\ worker' = Spawned
    /\ ~internalRunning' /\ UNCHANGED loops

\* the get() step has started a loop instance and nothing else
LoopStarted ==
    /\ internalRunning' /\ loops' = loops (+) SetToBag({nowMs})
    /\ ~workerRunning' /\ UNCHANGED <<worker, detached>>

\* the policy of automatic promotion, the worker being taken when usable
Policy(usable) ==
    GetPromotes =>
        /\ markCall(Main).r
        /\ cfg.prefer # "basic"
        /\ cfg.prefer = "internal" => LoopStarted
        /\ IF cfg.prefer \in {"worker", "auto"} /\ usable
           THEN WorkerStarted
           ELSE LoopStarted

\* C18 as stated: a get() promotes only if the monitor signalled and
\* prefer is not 'basic'; it starts the loop for 'internal', the worker
\* for 'worker' and 'auto' when the Worker constructor is available, and
\* the loop otherwise.
C18_PolicyAsStated == [][Policy(WorkerCtor)]_vars

\* C18 amended: ... the worker for 'worker' and 'auto' when the Worker
\* constructor is available and constructs the worker without throwing,
\* and the loop otherwise.
C18_Policy == [][Policy(WorkerCtor /\ log' # "worker start failed")]_vars

\* a get() of a generator that prefers the worker has promoted to the
\* loop because the available constructor threw
C18_Witness ==
    /\ cfg.prefer \in {"worker", "auto"}
    /\ WorkerCtor
    /\ log = "worker start failed"
    /\ internalRunning /\ ~workerRunning /\ worker = null
    /\ ret = Str(toBase64Url48(nowMs))
    /\ callsInWindow = 0
    /\ windowStartNano = nowNano
    /\ nowNano > 0

(***************************************************************************)
(* The refreshers.                                                         *)
(***************************************************************************)
\* C19: with a clock that never goes back, no step replaces the cached
\* value by a smaller one.
C19_CachedMonotonic == [][LexLeq(cached.s, cached'.s)]_vars

\* a worker thread that runs and has not been sent terminate()
Alive(th) == th.status \in {"spawned", "running"}

\* C20: every worker thread that is alive and was not sent terminate() is
\* the one the generator holds, with workerRunning true.
C20_NoOrphanedWorker ==
    /\ \A th \in BagToSet(detached) : ~Alive(th)
    /\ Alive(worker) => workerRunning

=============================================================================
